---- MODULE Spec2Model ----
(***************************************************************************)
(* Model of package uuid (src/id.go): the ID value type wrapping a 128-bit *)
(* UUID, its canonical (hyphenated hex) and compact (base-57) texts, the   *)
(* JSON and database adapters, and the NullableID wrapper.                 *)
(*                                                                         *)
(* A UUID is a sequence of 16 bytes ([16]byte).  A text (Go string or      *)
(* []byte) is a sequence of one-character strings.  A big.Int is a         *)
(* big-endian sequence of 16-bit limbs without leading zero limbs, so the  *)
(* arithmetic keeps the full width of the 128-bit value.  An error is a    *)
(* string naming the failing wrapper, "nil" when there is none.            *)
(*                                                                         *)
(* id.go delegates the two codecs to guuid.Parse / UUID.String             *)
(* (github.com/google/uuid) and shortuuid.DefaultEncoder                   *)
(* (github.com/lithammer/shortuuid/v4); they are modelled here by what     *)
(* those calls do.                                                         *)
(***************************************************************************)
EXTENDS Integers, Sequences, FiniteSets, TLC

\* ----------------------------------------------------------------- bounds
\* number of generated 128-bit sample values besides the literal ones
NumSamples == 3
\* longest truncation (characters dropped from the end of a text) tried
MaxCut == 2

\* ------------------------------------------------------------ basic texts
LowerHex == <<"0", "1", "2", "3", "4", "5", "6", "7", "8", "9", "a", "b", "c", "d", "e", "f">>
UpperHex == <<"0", "1", "2", "3", "4", "5", "6", "7", "8", "9", "A", "B", "C", "D", "E", "F">>

\* shortuuid.DefaultAlphabet: 57 symbols, digits and letters without 0 1 I O l
DefaultAlphabet == <<"2", "3", "4", "5", "6", "7", "8", "9", "A", "B", "C", "D", "E", "F", "G", "H", "J", "K", "L", "M", "N", "P", "Q", "R", "S", "T", "U", "V", "W", "X", "Y", "Z", "a", "b", "c", "d", "e", "f", "g", "h", "i", "j", "k", "m", "n", "o", "p", "q", "r", "s", "t", "u", "v", "w", "x", "y", "z">>

\* the encoded length shortuuid computes: ceil(log(2^128) / log(57))
strLen == 22

Repeat(c, n) == [i \in 1..n |-> c]

Reverse(s) == [i \in 1..Len(s) |-> s[Len(s) + 1 - i]]

\* position of c in seq (1-based), 0 when absent
IndexOf(seq, c) == IF \E i \in DOMAIN seq : seq[i] = c
                   THEN CHOOSE i \in DOMAIN seq : seq[i] = c
                   ELSE 0

\* ---------------------------------------------------------------- big.Int
\* one limb of a big.Int holds 16 bits (four hex digits)
LimbBase == 256 * 256

RECURSIVE Strip(_)
Strip(n) == IF n # <<>> /\ Head(n) = 0 THEN Strip(Tail(n)) ELSE n

\* n[1..i] * m + carry
RECURSIVE MulAddFrom(_, _, _, _)
MulAddFrom(n, i, m, carry) ==
    IF i = 0
    THEN IF carry = 0 THEN <<>> ELSE <<carry>>
    ELSE LET t == n[i] * m + carry
         IN  Append(MulAddFrom(n, i - 1, m, t \div LimbBase), t % LimbBase)

\* big.Int Mul then Add: n * m + a, for small m and a
BigMulAdd(n, m, a) == Strip(MulAddFrom(n, Len(n), m, a))

RECURSIVE DivFrom(_, _, _, _, _)
DivFrom(n, i, d, rem, q) ==
    IF i > Len(n)
    THEN [q |-> Strip(q), r |-> rem]
    ELSE LET t == rem * LimbBase + n[i]
         IN  DivFrom(n, i + 1, d, t % d, Append(q, t \div d))

\* big.Int DivMod by a small divisor
BigDivMod(n, d) == DivFrom(n, 1, d, 0, <<>>)

RECURSIVE BitsOf(_)
BitsOf(b) == IF b = 0 THEN 0 ELSE 1 + BitsOf(b \div 2)

\* big.Int BitLen
BitLen(n) == IF n = <<>> THEN 0 ELSE 16 * (Len(n) - 1) + BitsOf(n[1])

\* ------------------------------------------------------------ google/uuid
Nil == [i \in 1..16 |-> 0]

\* xvalues / xtob: the value of one hex character, 255 when it is none
xvalue(c) == IF IndexOf(LowerHex, c) > 0 THEN IndexOf(LowerHex, c) - 1
             ELSE IF IndexOf(UpperHex, c) > 0 THEN IndexOf(UpperHex, c) - 1
             ELSE 255

xtobOk(x1, x2) == xvalue(x1) # 255 /\ xvalue(x2) # 255
\* mutant of xtob: the two nibbles of a byte swapped
xtobSwapped(x1, x2) == xvalue(x2) * 16 + xvalue(x1)

xtob(x1, x2) == xvalue(x1) * 16 + xvalue(x2)

\* hex.Encode of bytes b[from..to], lowercase
HexEncode(b, from, to) ==
    [k \in 1..2 * (to - from + 1) |->
        LET byte == b[from + (k - 1) \div 2]
        IN  IF k % 2 = 1 THEN LowerHex[(byte \div 16) + 1] ELSE LowerHex[(byte % 16) + 1]]

\* UUID.String: xxxxxxxx-xxxx-xxxx-xxxx-xxxxxxxxxxxx, lowercase
UUIDString(u) ==
    HexEncode(u, 1, 4) \o <<"-">> \o HexEncode(u, 5, 6) \o <<"-">>
    \o HexEncode(u, 7, 8) \o <<"-">> \o HexEncode(u, 9, 10) \o <<"-">>
    \o HexEncode(u, 11, 16)

\* strings.EqualFold(s[:9], "urn:uuid:")
UrnPrefix == <<"u", "r", "n", ":", "u", "u", "i", "d", ":">>
UrnPrefixUpper == <<"U", "R", "N", ":", "U", "U", "I", "D", ":">>
IsUrnPrefix(s) == \A i \in 1..9 : s[i] = UrnPrefix[i] \/ s[i] = UrnPrefixUpper[i]

\* the 0-based offsets of the 16 byte pairs in the 36-character form
PairOffsets == <<0, 2, 4, 6, 9, 11, 14, 16, 19, 21, 24, 26, 28, 30, 32, 34>>

\* the tail of guuid.Parse: s is read as the hyphenated form; only its first
\* 36 characters are examined
ParseHyphenated(s) ==
    IF s[9] # "-" \/ s[14] # "-" \/ s[19] # "-" \/ s[24] # "-"
    THEN [uuid |-> Nil, err |-> "invalid UUID format"]
    ELSE IF \E i \in 1..16 : ~xtobOk(s[PairOffsets[i] + 1], s[PairOffsets[i] + 2])
    THEN [uuid |-> Nil, err |-> "invalid UUID format"]
    ELSE [uuid |-> [i \in 1..16 |-> xtob(s[PairOffsets[i] + 1], s[PairOffsets[i] + 2])],
          err |-> "nil"]

\* the 32-character raw hex form
ParseRawHex(s) ==
    IF \E i \in 1..16 : ~xtobOk(s[2 * i - 1], s[2 * i])
    THEN [uuid |-> Nil, err |-> "invalid UUID format"]
    ELSE [uuid |-> [i \in 1..16 |-> xtob(s[2 * i - 1], s[2 * i])], err |-> "nil"]

\* guuid.Parse: switch on len(s)
guuidParse(s) ==
    CASE Len(s) = 36 -> ParseHyphenated(s)
      [] Len(s) = 36 + 9 ->
            IF ~IsUrnPrefix(s)
            THEN [uuid |-> Nil, err |-> "invalid urn prefix"]
            ELSE ParseHyphenated(SubSeq(s, 10, Len(s)))
      [] Len(s) = 36 + 2 -> ParseHyphenated(SubSeq(s, 2, Len(s)))
      [] Len(s) = 32 -> ParseRawHex(s)
      [] OTHER -> [uuid |-> Nil, err |-> "invalid UUID length"]

\* -------------------------------------------------------------- shortuuid
\* big.Int SetString(text, 16) of a hex text whose length is a multiple of
\* four: four hex digits are one limb of the number
BigFromHex(s) ==
    Strip([i \in 1..(Len(s) \div 4) |->
              xtob(s[4 * i - 3], s[4 * i - 2]) * 256 + xtob(s[4 * i - 1], s[4 * i])])

\* strings.Replace(u.String(), "-", "", 4)
DropHyphens(s) == SelectSeq(s, LAMBDA c : c # "-")

\* the digit loop of numToString: least significant symbol first
RECURSIVE Digits(_)
Digits(number) ==
    IF number = <<>> THEN <<>>
    ELSE LET qr == BigDivMod(number, Len(DefaultAlphabet))
         IN  <<DefaultAlphabet[qr.r + 1]>> \o Digits(qr.q)

\* mutant of numToString: least significant symbol first (no reverse)
numToStringNoReverse(number, padToLen) ==
    LET out == Digits(number)
        remainder == IF padToLen - Len(out) > 0 THEN padToLen - Len(out) ELSE 0
    IN  out \o Repeat(DefaultAlphabet[1], remainder)

\* mutant of numToString: no padding to padToLen
numToStringNoPad(number, padToLen) == Reverse(Digits(number))

\* numToString: digits, padding with the first symbol, then reverse
numToString(number, padToLen) ==
    LET out == Digits(number)
        remainder == IF padToLen - Len(out) > 0 THEN padToLen - Len(out) ELSE 0
    IN  Reverse(out \o Repeat(DefaultAlphabet[1], remainder))

\* DefaultEncoder.Encode
Encode(u) == numToString(BigFromHex(DropHyphens(UUIDString(u))), strLen)

\* fmt.Sprintf("%032x", n)
RECURSIVE StripZeros(_)
StripZeros(s) == IF s # <<>> /\ Head(s) = "0" THEN StripZeros(Tail(s)) ELSE s

BigToHex(n) ==
    LET bytes == [k \in 1..2 * Len(n) |->
                     IF k % 2 = 1 THEN n[(k + 1) \div 2] \div 256 ELSE n[k \div 2] % 256]
        digits == StripZeros(HexEncode(bytes, 1, Len(bytes)))
    IN  IF Len(digits) >= 32 THEN digits ELSE Repeat("0", 32 - Len(digits)) \o digits

\* stringToNum: the base-57 value of s, as a 32-digit hex text
RECURSIVE AccumulateNum(_, _)
AccumulateNum(s, n) ==
    IF s = <<>> THEN [n |-> n, err |-> "nil"]
    ELSE IF IndexOf(DefaultAlphabet, Head(s)) = 0
    THEN [n |-> n, err |-> "not in alphabet"]
    ELSE LET m == BigMulAdd(n, Len(DefaultAlphabet), IndexOf(DefaultAlphabet, Head(s)) - 1)
         IN  \* the test only makes TLC compute m before the next character
             IF Len(m) >= 0 THEN AccumulateNum(Tail(s), m) ELSE [n |-> m, err |-> "nil"]

stringToNum(s) ==
    LET a == AccumulateNum(s, <<>>)
    IN  IF a.err # "nil" THEN [str |-> <<>>, err |-> a.err]
        ELSE IF BitLen(a.n) > 128
        THEN [str |-> <<>>, err |-> "number is out of range (need a 128-bit value)"]
        ELSE [str |-> BigToHex(a.n), err |-> "nil"]

\* DefaultEncoder.Decode: a text shorter than strLen is read as padded with
\* zero in its most significant digits
Decode(s) ==
    LET r == stringToNum(s)
    IN  IF r.err # "nil" THEN [uuid |-> Nil, err |-> r.err] ELSE guuidParse(r.str)

\* ------------------------------------------------------------------ id.go
\* type ID struct { guuid.UUID }
FromUUID(u) == [UUID |-> u]

\* ID{}
ZeroID == [UUID |-> Nil]

IsZero(x) == x.UUID = Nil

Equal(x, other) == x.UUID = other.UUID

Parse(s) ==
    LET r == Decode(s)
    IN  IF r.err # "nil"
        THEN [id |-> ZeroID, err |-> "failed to decode shortuuid"]
        ELSE [id |-> [UUID |-> r.uuid], err |-> "nil"]

FromString(s) ==
    LET r == guuidParse(s)
    IN  IF r.err # "nil"
        THEN [id |-> ZeroID, err |-> "failed to parse uuid"]
        ELSE [id |-> [UUID |-> r.uuid], err |-> "nil"]

String(x) == UUIDString(x.UUID)

ShortString(x) == Encode(x.UUID)

\* ---------------------------------------------------------- encoding/json
Null == <<"n", "u", "l", "l">>

\* json.Marshal of a Go string without characters that need escaping
Quote(s) == <<"\"">> \o s \o <<"\"">>

IsSpace(c) == c \in {" ", "\t", "\n", "\r"}

RECURSIVE TrimLeft(_)
TrimLeft(d) == IF d # <<>> /\ IsSpace(Head(d)) THEN TrimLeft(Tail(d)) ELSE d

\* the JSON value in data, without the whitespace around it
TrimSpace(d) == Reverse(TrimLeft(Reverse(TrimLeft(d))))

IsNumberLiteral(d) ==
    /\ d # <<>>
    /\ \A i \in DOMAIN d : d[i] \in {"1", "2", "3", "4", "5", "6", "7", "8", "9"}

IsStringLiteral(d) ==
    /\ Len(d) >= 2
    /\ d[1] = "\"" /\ d[Len(d)] = "\""
    /\ \A i \in 2..(Len(d) - 1) : d[i] \notin {"\"", "\\"}

\* json.Unmarshal(data, &s) for var s string: null leaves s empty, a string
\* literal sets it, any other value is a type error, anything else a syntax
\* error (literals with escapes are not among the inputs)
jsonUnmarshalString(data) ==
    LET v == TrimSpace(data)
    IN  CASE v = Null -> [s |-> <<>>, err |-> "nil"]
          [] IsStringLiteral(v) -> [s |-> SubSeq(v, 2, Len(v) - 1), err |-> "nil"]
          [] IsNumberLiteral(v) \/ v \in {<<"t", "r", "u", "e">>, <<"{", "}">>} ->
                [s |-> <<>>, err |-> "json: cannot unmarshal into Go value of type string"]
          [] OTHER -> [s |-> <<>>, err |-> "json: syntax error"]

\* ----------------------------------------------------------- ID adapters
ID_MarshalJSON(x) == [data |-> Quote(ShortString(x)), err |-> "nil"]

\* mutant of ID_UnmarshalJSON: Parse's result stored before the error test
ID_UnmarshalJSONAssignFirst(x, data) ==
    LET u == jsonUnmarshalString(data)
    IN  IF u.err # "nil" THEN [id |-> x, err |-> u.err]
        ELSE LET parsed == Parse(u.s)
             IN  [id |-> parsed.id, err |-> parsed.err]

\* the receiver after the call, and the error returned
ID_UnmarshalJSON(x, data) ==
    LET u == jsonUnmarshalString(data)
    IN  IF u.err # "nil" THEN [id |-> x, err |-> u.err]
        ELSE LET parsed == Parse(u.s)
             IN  IF parsed.err # "nil" THEN [id |-> x, err |-> parsed.err]
                 ELSE [id |-> parsed.id, err |-> "nil"]

\* a driver.Value / interface{}: its dynamic type t and its value v
NilValue == [t |-> "nil", v |-> <<>>]

ID_Value(x) == [value |-> [t |-> "string", v |-> String(x)], err |-> "nil"]

\* mutant of ID_Scan: no case for uuid.UUID
ID_ScanNoUUID(x, value) ==
    IF value.t = "nil" THEN [id |-> ZeroID, err |-> "nil"]
    ELSE IF value.t \in {"string", "[]byte"}
    THEN LET r == guuidParse(value.v)
         IN  IF r.err # "nil"
             THEN [id |-> x, err |-> IF value.t = "string" THEN "failed to scan UUID string"
                                     ELSE "failed to scan UUID bytes"]
             ELSE [id |-> [UUID |-> r.uuid], err |-> "nil"]
    ELSE [id |-> x, err |-> "cannot scan %T into ID"]

\* mutant of ID_Scan: nil returns without resetting the receiver
ID_ScanKeepOnNil(x, value) ==
    IF value.t = "nil" THEN [id |-> x, err |-> "nil"]
    ELSE IF value.t \in {"string", "[]byte"}
    THEN LET r == guuidParse(value.v)
         IN  IF r.err # "nil"
             THEN [id |-> x, err |-> IF value.t = "string" THEN "failed to scan UUID string"
                                     ELSE "failed to scan UUID bytes"]
             ELSE [id |-> [UUID |-> r.uuid], err |-> "nil"]
    ELSE IF value.t = "uuid.UUID" THEN [id |-> [UUID |-> value.v], err |-> "nil"]
    ELSE [id |-> x, err |-> "cannot scan %T into ID"]

ID_Scan(x, value) ==
    IF value.t = "nil" THEN [id |-> ZeroID, err |-> "nil"]
    ELSE CASE value.t = "string" ->
                LET r == guuidParse(value.v)
                IN  IF r.err # "nil" THEN [id |-> x, err |-> "failed to scan UUID string"]
                    ELSE [id |-> [UUID |-> r.uuid], err |-> "nil"]
           [] value.t = "[]byte" ->
                LET r == guuidParse(value.v)
                IN  IF r.err # "nil" THEN [id |-> x, err |-> "failed to scan UUID bytes"]
                    ELSE [id |-> [UUID |-> r.uuid], err |-> "nil"]
           [] value.t = "uuid.UUID" -> [id |-> [UUID |-> value.v], err |-> "nil"]
           [] OTHER -> [id |-> x, err |-> "cannot scan %T into ID"]

\* ------------------------------------------------------------ NullableID
\* type NullableID struct { ID ID; Valid bool }
NewNullable(x) == [ID |-> x, Valid |-> ~IsZero(x)]

\* a *ID: nil, or a pointer to the ID it holds
NilPtr == [isNil |-> TRUE, id |-> ZeroID]
PtrTo(x) == [isNil |-> FALSE, id |-> x]

NullableFromPtr(p) ==
    IF p.isNil \/ IsZero(p.id) THEN [ID |-> ZeroID, Valid |-> FALSE]
    ELSE [ID |-> p.id, Valid |-> TRUE]

Ptr(n) == IF ~n.Valid THEN NilPtr ELSE PtrTo(n.ID)

\* mutant of NullableID_MarshalJSON: null decided by the wrapped ID being zero
NullableID_MarshalJSONByZero(n) ==
    IF IsZero(n.ID) THEN [data |-> Null, err |-> "nil"] ELSE ID_MarshalJSON(n.ID)

NullableID_MarshalJSON(n) ==
    IF ~n.Valid THEN [data |-> Null, err |-> "nil"] ELSE ID_MarshalJSON(n.ID)

\* the receiver after the call, and the error returned
NullableID_UnmarshalJSON(n, data) ==
    IF data = Null THEN [nid |-> [n EXCEPT !.Valid = FALSE], err |-> "nil"]
    ELSE LET r == ID_UnmarshalJSON(ZeroID, data)
         IN  IF r.err # "nil" THEN [nid |-> n, err |-> r.err]
             ELSE [nid |-> [ID |-> r.id, Valid |-> TRUE], err |-> "nil"]

NullableID_Value(n) ==
    IF ~n.Valid THEN [value |-> NilValue, err |-> "nil"] ELSE ID_Value(n.ID)

NullableID_Scan(n, value) ==
    IF value.t = "nil" THEN [nid |-> [n EXCEPT !.Valid = FALSE], err |-> "nil"]
    ELSE LET r == ID_Scan(ZeroID, value)
         IN  IF r.err # "nil" THEN [nid |-> n, err |-> r.err]
             ELSE [nid |-> [ID |-> r.id, Valid |-> TRUE], err |-> "nil"]

\* ---------------------------------------------------------------- inputs
\* guuid.New: 16 random bytes with the version (4) and variant (10) bits set
Sample(k) ==
    [i \in 1..16 |->
        LET b == (k * 53 + i * (2 * k + 1) * 29 + i * i * 7) % 256
        IN  IF i = 7 THEN (b % 16) + 64 ELSE IF i = 9 THEN (b % 64) + 128 ELSE b]

\* 8eca1fe1-a833-4de0-b487-b54785cc656e (TestRealUUIDPairs)
Fixture1 == <<142, 202, 31, 225, 168, 51, 77, 224, 180, 135, 181, 71, 133, 204, 101, 110>>

\* 2^128 - 1, and 1
MaxUUID == [i \in 1..16 |-> 255]
SmallUUID == [i \in 1..16 |-> IF i = 16 THEN 1 ELSE 0]

\* values New() can return, and every 128-bit value the model draws from
Generated == {Fixture1} \cup {Sample(k) : k \in 1..NumSamples}
UUIDs == Generated \cup {Nil, MaxUUID, SmallUUID}

ReplaceAt(s, p, c) == [s EXCEPT ![p] = c]

Upper(s) ==
    [i \in DOMAIN s |->
        IF IndexOf(LowerHex, s[i]) > 0 THEN UpperHex[IndexOf(LowerHex, s[i])] ELSE s[i]]

Canonical(u) == UUIDString(u)
Compact(u) == Encode(u)

\* characters outside the compact alphabet
ForeignChars == {"0", "l", "-"}

\* 22 symbols of the alphabet whose base-57 value is 2^128 and 57^22 - 1
OverflowTexts ==
    {<<"o", "Z", "E", "q", "7", "o", "v", "R", "b", "L", "q", "6", "U", "n", "G", "M", "P", "w", "c", "8", "B", "6">>,
     Repeat("z", strLen)}

Truncated(s) == {SubSeq(s, 1, Len(s) - c) : c \in 1..MaxCut}

\* texts handed to Parse
CompactTexts ==
    {Compact(u) : u \in UUIDs}
    \cup {<<>>}
    \cup UNION {Truncated(Compact(u)) : u \in UUIDs}
    \cup {ReplaceAt(Compact(u), p, c) : u \in {Fixture1}, p \in {1, strLen}, c \in ForeignChars}
    \cup OverflowTexts

\* texts handed to FromString
CanonicalTexts ==
    {Canonical(u) : u \in UUIDs}
    \cup {Upper(Canonical(u)) : u \in UUIDs}
    \cup {<<>>}
    \cup UNION {Truncated(Canonical(u)) : u \in UUIDs}
    \cup {Canonical(u) \o <<"0">> : u \in UUIDs}
    \cup {ReplaceAt(Canonical(Fixture1), p, "g") : p \in {1, 10, 36}}
    \cup {ReplaceAt(Canonical(Fixture1), p, "0") : p \in {9, 14, 19, 24}}
    \cup {ReplaceAt(ReplaceAt(Canonical(Fixture1), 9, "1"), 10, "-")}
    \cup {DropHyphens(Canonical(u)) : u \in UUIDs}
    \cup {<<"{">> \o Canonical(u) \o <<"}">> : u \in UUIDs}
    \cup {UrnPrefix \o Canonical(u) : u \in UUIDs}

\* data handed to UnmarshalJSON
JSONInputs ==
    {Quote(Compact(u)) : u \in UUIDs}
    \cup {Null, <<" ">> \o Null, Quote(<<>>), <<>>, <<"1", "2">>, <<"\"", "a">>}
    \cup {Quote(t) : t \in Truncated(Compact(Fixture1))}
    \cup {Quote(ReplaceAt(Compact(Fixture1), 1, "0")), Quote(Canonical(Fixture1))}
    \cup {Quote(t) : t \in OverflowTexts}

\* values handed to Scan
ScanInputs ==
    {NilValue}
    \cup {[t |-> "string", v |-> Canonical(u)] : u \in UUIDs}
    \cup {[t |-> "[]byte", v |-> Canonical(u)] : u \in UUIDs}
    \cup {[t |-> "uuid.UUID", v |-> u] : u \in UUIDs}
    \cup {[t |-> "int64", v |-> <<>>], [t |-> "bool", v |-> <<>>]}
    \cup {[t |-> "string", v |-> <<>>], [t |-> "string", v |-> Compact(Fixture1)]}
    \cup {[t |-> "[]byte", v |-> x] : x \in Truncated(Canonical(Fixture1))}

\* ----------------------------------------------------------------- state
VARIABLES
    id,        \* var id ID: the receiver of ID.UnmarshalJSON and ID.Scan
    nid,       \* var nid NullableID: the shared nullable variable
    last,      \* the call that has just returned: op, arg, ret (for a call on id or
               \* nid: the receiver before the call), err, and the value x a
               \* round trip started from
    wpc,       \* the position of the goroutine running nid.UnmarshalJSON / nid.Scan
    wloc,      \* its local variable id
    wpost,     \* what its call returns as a whole: the receiver after it
    rread,     \* the fields of nid a reading goroutine has copied so far
    rbuf,      \* the copy it is building
    bounds,    \* the complete values of nid at the boundaries of the calls the copy overlaps
    raced      \* whether the copy overlaps a running call

vars == <<id, nid, last, wpc, wloc, wpost, rread, rbuf, bounds, raced>>
concVars == <<wpc, wloc, wpost, rread, rbuf, bounds, raced>>

Idle == [op |-> "idle", arg |-> <<>>, ret |-> <<>>, err |-> "nil", x |-> Nil]

Init ==
    /\ id = ZeroID
    /\ nid = NewNullable(ZeroID)
    /\ last = Idle
    /\ wpc = "idle"
    /\ wloc = ZeroID
    /\ wpost = [ID |-> ZeroID, Valid |-> FALSE]
    /\ rread = {}
    /\ rbuf = [ID |-> ZeroID, Valid |-> FALSE]
    /\ bounds = {}
    /\ raced = FALSE

Returned(op, arg, ret, err, x) == [op |-> op, arg |-> arg, ret |-> ret, err |-> err, x |-> x]

\* ------------------------------------------------- calls of the functions
CallShortString ==
    \E u \in UUIDs :
        /\ last = Idle
        /\ last' = Returned("ShortString", u, ShortString(FromUUID(u)), "nil", u)
        /\ UNCHANGED <<id, nid, concVars>>

CallParse ==
    \E s \in CompactTexts :
        /\ last = Idle
        /\ LET r == Parse(s) IN last' = Returned("Parse", s, r.id, r.err, Nil)
        /\ UNCHANGED <<id, nid, concVars>>

\* Parse(FromUUID(x).ShortString())
ParseShortString ==
    /\ last.op = "ShortString"
    /\ LET r == Parse(last.ret)
       IN  last' = Returned("Parse(ShortString)", last.ret, r.id, r.err, last.x)
    /\ UNCHANGED <<id, nid, concVars>>

CallString ==
    \E u \in UUIDs :
        /\ last = Idle
        /\ last' = Returned("String", u, String(FromUUID(u)), "nil", u)
        /\ UNCHANGED <<id, nid, concVars>>

CallFromString ==
    \E s \in CanonicalTexts :
        /\ last = Idle
        /\ LET r == FromString(s) IN last' = Returned("FromString", s, r.id, r.err, Nil)
        /\ UNCHANGED <<id, nid, concVars>>

\* FromString(FromUUID(x).String()), and String() of its result
FromStringString ==
    /\ last.op = "String"
    /\ LET r == FromString(last.ret)
       IN  last' = Returned("FromString(String)", last.ret,
                            [id |-> r.id, text |-> String(r.id)], r.err, last.x)
    /\ UNCHANGED <<id, nid, concVars>>

\* the caller drops the result
Discard ==
    /\ last # Idle
    /\ last' = Idle
    /\ UNCHANGED <<id, nid, concVars>>

\* --------------------------------------------------- calls on the ID variable
CallIDUnmarshalJSON ==
    \E data \in JSONInputs :
        /\ last = Idle
        /\ LET r == ID_UnmarshalJSON(id, data)
           IN  /\ id' = r.id
               /\ last' = Returned("ID.UnmarshalJSON", data, id, r.err, Nil)
        /\ UNCHANGED <<nid, concVars>>

CallIDScan ==
    \E value \in ScanInputs :
        /\ last = Idle
        /\ LET r == ID_Scan(id, value)
           IN  /\ id' = r.id
               /\ last' = Returned("ID.Scan", value, id, r.err, Nil)
        /\ UNCHANGED <<nid, concVars>>

CallIDValue ==
    \E u \in UUIDs :
        /\ last = Idle
        /\ LET r == ID_Value(FromUUID(u))
           IN  last' = Returned("ID.Value", u, r.value, r.err, u)
        /\ UNCHANGED <<id, nid, concVars>>

\* id.Scan(v) for the v that FromUUID(x).Value() returned, as text or as bytes
ScanIDValue ==
    \E t \in {"string", "[]byte"} :
        /\ last.op = "ID.Value"
        /\ LET value == [t |-> t, v |-> last.ret.v]
               r == ID_Scan(id, value)
           IN  /\ id' = r.id
               /\ last' = Returned("ID.Scan(Value)", value, id, r.err, last.x)
        /\ UNCHANGED <<nid, concVars>>

\* ------------------------------------------- calls on the NullableID variable
CallNewNullable ==
    \E u \in UUIDs :
        /\ last = Idle
        /\ nid' = NewNullable(FromUUID(u))
        /\ last' = Returned("NewNullable", u, nid', "nil", Nil)
        /\ UNCHANGED <<id, concVars>>

CallNullableFromPtr ==
    \E p \in {NilPtr} \cup {PtrTo(FromUUID(u)) : u \in UUIDs} :
        /\ last = Idle
        /\ nid' = NullableFromPtr(p)
        /\ last' = Returned("NullableFromPtr", p, nid', "nil", Nil)
        /\ UNCHANGED <<id, concVars>>

CallPtr ==
    /\ last = Idle
    /\ last' = Returned("NullableID.Ptr", nid, Ptr(nid), "nil", Nil)
    /\ UNCHANGED <<id, nid, concVars>>

CallNullableMarshalJSON ==
    /\ last = Idle
    /\ LET r == NullableID_MarshalJSON(nid)
       IN  last' = Returned("NullableID.MarshalJSON", nid, r.data, r.err, Nil)
    /\ UNCHANGED <<id, nid, concVars>>

CallNullableUnmarshalJSON ==
    \E data \in JSONInputs :
        /\ last = Idle
        /\ LET r == NullableID_UnmarshalJSON(nid, data)
           IN  /\ nid' = r.nid
               /\ last' = Returned("NullableID.UnmarshalJSON", data, nid, r.err, Nil)
        /\ UNCHANGED <<id, concVars>>

CallNullableValue ==
    /\ last = Idle
    /\ LET r == NullableID_Value(nid)
       IN  last' = Returned("NullableID.Value", nid, r.value, r.err, Nil)
    /\ UNCHANGED <<id, nid, concVars>>

CallNullableScan ==
    \E value \in ScanInputs :
        /\ last = Idle
        /\ LET r == NullableID_Scan(nid, value)
           IN  /\ nid' = r.nid
               /\ last' = Returned("NullableID.Scan", value, nid, r.err, Nil)
        /\ UNCHANGED <<id, concVars>>

Next ==
    \/ CallShortString \/ CallParse \/ ParseShortString
    \/ CallString \/ CallFromString \/ FromStringString
    \/ CallIDUnmarshalJSON \/ CallIDScan \/ CallIDValue \/ ScanIDValue
    \/ CallNewNullable \/ CallNullableFromPtr \/ CallPtr
    \/ CallNullableMarshalJSON \/ CallNullableUnmarshalJSON
    \/ CallNullableValue \/ CallNullableScan
    \/ Discard

Spec == Init /\ [][Next]_vars

\* ------------------------------------------------- two goroutines on nid
\* One goroutine runs nid.UnmarshalJSON(data) or nid.Scan(value) (pointer
\* receivers: they store into the shared variable, field by field), another
\* calls nid.Ptr(), nid.MarshalJSON() or nid.Value() (value receivers: the
\* call copies the shared variable).  Nothing orders the stores and the
\* copy, so they interleave; the 16 bytes of the ID move as two 8-byte words.
ConcUUIDs == {Nil, Fixture1, MaxUUID}

ConcJSONInputs ==
    {Null, <<"1", "2">>} \cup {Quote(Compact(u)) : u \in ConcUUIDs}

ConcScanInputs ==
    {NilValue, [t |-> "int64", v |-> <<>>]}
    \cup {[t |-> "string", v |-> Canonical(u)] : u \in ConcUUIDs}

Parts == {"ID.hi", "ID.lo", "Valid"}

\* dst with one part of it replaced by that part of src
CopyPart(dst, src, part) ==
    CASE part = "ID.hi" ->
            [dst EXCEPT !.ID.UUID = [i \in 1..16 |-> IF i <= 8 THEN src.ID.UUID[i] ELSE @[i]]]
      [] part = "ID.lo" ->
            [dst EXCEPT !.ID.UUID = [i \in 1..16 |-> IF i > 8 THEN src.ID.UUID[i] ELSE @[i]]]
      [] OTHER -> [dst EXCEPT !.Valid = src.Valid]

Copying == rread # {} /\ rread # Parts

\* the writer enters r == the call as a whole; its stores are still to come
WBegin(r) ==
    /\ wpc = "idle"
    /\ wpost' = r.nid
    /\ bounds' = (IF Copying THEN bounds ELSE {}) \cup {nid, r.nid}
    /\ IF r.err # "nil"
       THEN wpc' = "idle" /\ UNCHANGED <<wloc, raced>>
       ELSE IF ~r.nid.Valid
       THEN wpc' = "Valid = false" /\ UNCHANGED wloc /\ raced' = (raced \/ Copying)
       ELSE wpc' = "ID.hi = id" /\ wloc' = r.nid.ID /\ raced' = (raced \/ Copying)
    /\ UNCHANGED <<id, nid, last, rread, rbuf>>

\* nid.UnmarshalJSON(data) up to its first store: the null test, and the
\* local var id decoded from data
WBeginUnmarshalJSON ==
    \E data \in ConcJSONInputs : WBegin(NullableID_UnmarshalJSON(nid, data))

\* nid.Scan(value) up to its first store
WBeginScan ==
    \E value \in ConcScanInputs : WBegin(NullableID_Scan(nid, value))

\* nid.ID = id, first word
WStoreIDHi ==
    /\ wpc = "ID.hi = id"
    /\ nid' = CopyPart(nid, [ID |-> wloc, Valid |-> TRUE], "ID.hi")
    /\ wpc' = "ID.lo = id"
    /\ raced' = (raced \/ Copying)
    /\ UNCHANGED <<id, last, wloc, wpost, rread, rbuf, bounds>>

\* nid.ID = id, second word
WStoreIDLo ==
    /\ wpc = "ID.lo = id"
    /\ nid' = CopyPart(nid, [ID |-> wloc, Valid |-> TRUE], "ID.lo")
    /\ wpc' = "Valid = true"
    /\ raced' = (raced \/ Copying)
    /\ UNCHANGED <<id, last, wloc, wpost, rread, rbuf, bounds>>

\* mutant of WStoreValid: the call returns without storing the flag
WStoreValidMissing ==
    /\ wpc = "Valid = true"
    /\ wpc' = "idle"
    /\ UNCHANGED <<id, nid, last, wloc, wpost, rread, rbuf, bounds, raced>>

\* nid.Valid = true; return nil
WStoreValid ==
    /\ wpc = "Valid = true"
    /\ nid' = [nid EXCEPT !.Valid = TRUE]
    /\ wpc' = "idle"
    /\ raced' = (raced \/ Copying)
    /\ UNCHANGED <<id, last, wloc, wpost, rread, rbuf, bounds>>

\* nid.Valid = false; return nil
WStoreInvalid ==
    /\ wpc = "Valid = false"
    /\ nid' = [nid EXCEPT !.Valid = FALSE]
    /\ wpc' = "idle"
    /\ raced' = (raced \/ Copying)
    /\ UNCHANGED <<id, last, wloc, wpost, rread, rbuf, bounds>>

\* the reader's call copies one more part of nid, in no fixed order
RCopy ==
    \E part \in Parts \ rread :
        /\ rread # Parts
        /\ rbuf' = CopyPart(rbuf, nid, part)
        /\ rread' = rread \cup {part}
        /\ IF rread = {}
           THEN /\ raced' = (wpc # "idle")
                /\ bounds' = IF wpc = "idle" THEN {nid} ELSE bounds
           ELSE UNCHANGED <<raced, bounds>>
        /\ UNCHANGED <<id, nid, last, wpc, wloc, wpost>>

\* Ptr, MarshalJSON or Value runs on the copy (a function of rbuf alone) and
\* returns
RReturn ==
    /\ rread = Parts
    /\ rread' = {}
    /\ UNCHANGED <<id, nid, last, wpc, wloc, wpost, rbuf, bounds, raced>>

ConcNext ==
    \/ WBeginUnmarshalJSON \/ WBeginScan
    \/ WStoreIDHi \/ WStoreIDLo \/ WStoreValid \/ WStoreInvalid
    \/ RCopy \/ RReturn

ConcSpec == Init /\ [][ConcNext]_vars

\* ------------------------------------------------------------ properties
InAlphabet(s) == \A i \in DOMAIN s : IndexOf(DefaultAlphabet, s[i]) > 0

\* the 36-character 8-4-4-4-12 layout, hex digits in either case
IsHyphenatedLayout(s) ==
    /\ Len(s) = 36
    /\ \A i \in 1..36 :
          IF i \in {9, 14, 19, 24} THEN s[i] = "-" ELSE xvalue(s[i]) # 255

IsLowerHyphenated(s) ==
    /\ IsHyphenatedLayout(s)
    /\ \A i \in 1..36 : i \notin {9, 14, 19, 24} => IndexOf(LowerHex, s[i]) > 0

\* C1: for every 128-bit value x, Parse(FromUUID(x).ShortString()) returns no
\* error and an ID Equal to FromUUID(x).
C1_CompactRoundTrip ==
    last.op = "Parse(ShortString)" =>
        last.err = "nil" /\ Equal(last.ret, FromUUID(last.x))

C1_Witness ==
    /\ last.op = "Parse(ShortString)"
    /\ last.x = MaxUUID
    /\ last.ret = FromUUID(MaxUUID)

\* C2: for every 128-bit value x, FromString(FromUUID(x).String()) returns no
\* error and an ID Equal to FromUUID(x), and String() of the result is the same
\* 36-character lowercase hyphenated text.
C2_CanonicalRoundTrip ==
    last.op = "FromString(String)" =>
        /\ last.err = "nil"
        /\ Equal(last.ret.id, FromUUID(last.x))
        /\ last.ret.text = last.arg
        /\ IsLowerHyphenated(last.arg)

C2_Witness ==
    /\ last.op = "FromString(String)"
    /\ last.x = Fixture1
    /\ last.ret.id = FromUUID(Fixture1)

\* C3: ShortString() is 22 symbols of the 57-symbol alphabet for every value,
\* padded on the left with the first symbol: the zero value gives that symbol
\* 22 times, the value 1 gives it 21 times before the second symbol, and
\* 2^128 - 1 fits in 22 symbols.
C3_FixedLength ==
    last.op = "ShortString" =>
        /\ Len(last.ret) = 22
        /\ Len(DefaultAlphabet) = 57
        /\ InAlphabet(last.ret)
        /\ (last.x = Nil => last.ret = Repeat("2", 22))
        /\ (last.x = SmallUUID => last.ret = Repeat("2", 21) \o <<"3">>)

C3_Witness ==
    /\ last.op = "ShortString"
    /\ last.x = SmallUUID
    /\ Len(last.ret) = 22

\* a text that is not a well-formed compact text: empty, too short, with a
\* character outside the alphabet, or worth more than 128 bits
Malformed(s) ==
    s = <<>> \/ Len(s) < strLen \/ ~InAlphabet(s) \/ s \in OverflowTexts

\* C4: Parse returns an error and the zero ID for every input that is not a
\* well-formed compact text (empty, foreign character, truncated, over 128 bits).
C4_ParseRejectsMalformed ==
    last.op = "Parse" /\ Malformed(last.arg) =>
        last.err # "nil" /\ last.ret = ZeroID

\* C5: FromString accepts exactly the 36-character 8-4-4-4-12 hyphenated hex
\* layout and returns an error on any other text.
C5_FromStringExactLayout ==
    last.op = "FromString" =>
        (last.err = "nil" <=> IsHyphenatedLayout(last.arg))

C7_ScanNilAndValue ==
    /\ last.op = "ID.Scan" /\ last.arg = NilValue => last.err = "nil" /\ IsZero(id)
    /\ last.op = "ID.Scan(Value)" => last.err = "nil" /\ Equal(id, FromUUID(last.x))

C7_Witness ==
    /\ last.op = "ID.Scan"
    /\ last.arg = NilValue
    /\ ~IsZero(last.ret)
    /\ IsZero(id)

\* C8: in every state of the NullableID variable reached from NewNullable or
\* NullableFromPtr by UnmarshalJSON and Scan calls, Valid is true if and only
\* if the wrapped ID is non-zero.
C8_ValidIffNonZero == nid.Valid <=> ~IsZero(nid.ID)

\* C9: serialization follows the Valid flag alone: MarshalJSON emits null and
\* Value emits nil whenever Valid is false, and what the wrapped ID's
\* MarshalJSON / Value emit whenever it is true; UnmarshalJSON of null and
\* Scan of nil return no error and leave Valid false.
C9_FlagDecidesSerialization ==
    /\ last.op = "NullableID.MarshalJSON" =>
          /\ last.err = "nil"
          /\ last.ret = IF nid.Valid THEN Quote(ShortString(nid.ID)) ELSE Null
    /\ last.op = "NullableID.Value" =>
          /\ last.err = "nil"
          /\ last.ret = IF nid.Valid THEN [t |-> "string", v |-> String(nid.ID)]
                        ELSE NilValue
    /\ last.op = "NullableID.UnmarshalJSON" /\ last.arg = Null =>
          last.err = "nil" /\ ~nid.Valid
    /\ last.op = "NullableID.Scan" /\ last.arg = NilValue =>
          last.err = "nil" /\ ~nid.Valid

C9_Witness ==
    /\ last.op = "NullableID.MarshalJSON"
    /\ ~nid.Valid
    /\ ~IsZero(nid.ID)
    /\ last.ret = Null

C11_ErrorLeavesReceiver ==
    /\ last.op \in {"ID.UnmarshalJSON", "ID.Scan"} /\ last.err # "nil" =>
          id = last.ret
    /\ last.op \in {"NullableID.UnmarshalJSON", "NullableID.Scan"} /\ last.err # "nil" =>
          nid.ID = last.ret.ID /\ nid.Valid = last.ret.Valid

C11_Witness ==
    /\ last.op = "ID.UnmarshalJSON"
    /\ last.err = "failed to decode shortuuid"
    /\ last.ret = FromUUID(Fixture1)
    /\ id = FromUUID(Fixture1)
    /\ nid.Valid
    /\ ~IsZero(nid.ID)

====
